---- MODULE Spec2Model ----
(***************************************************************************)
(* Model of the MoneyMax calculation engine (src/data/financial_utils.py)  *)
(* and of the request pipeline that drives it (src/app.py, api_calcular).  *)
(*                                                                         *)
(* Numbers.  The program computes with Python floats.  The model computes  *)
(* with exact rationals: a numerator of arbitrary size (a sequence of      *)
(* limbs) over a denominator kept as a sorted sequence of small factors.   *)
(* round(x, k) is the one place where the float's representation error can *)
(* decide the outcome: when the exact value lies half-way between two      *)
(* neighbours the float is a hair above or below it, so Round returns both *)
(* neighbours and the action that rounds chooses between them.             *)
(*                                                                         *)
(* Units of the inputs: money in thousandths of a peso ("milesimas"),      *)
(* annual rates in hundredths of a percent ("centesimas"), terms in days   *)
(* or months.  Reported money is in centavos.                              *)
(***************************************************************************)
EXTENDS Integers, Sequences, FiniteSets, TLC

\* ------------------------------------------------------------ arithmetic
\* Python's float arithmetic is modelled by exact rational arithmetic; only
\* round() leaves the rationals.
\*
\* A natural number is a sequence of limbs, least significant first, with no
\* leading zero limb; zero is the empty sequence.  A denominator is a sorted
\* sequence of small factors, each > 1.  A rational is [neg, n, d]: the value
\* (-1)^neg * n / product(d).
\*
\* The operations that are built from other operations are the cases of one
\* recursive operator, Arit, and are named by the operators defined before
\* it (BAdd, QMul, Round, ...).
Base == 100 * 100

\* The largest small factor: a limb times it is a machine integer.
MaxFactor == 200 * 1000

MaxOf(S) == CHOOSE x \in S : \A y \in S : y <= x

BNorm(s) == SubSeq(s, 1, MaxOf({0} \cup {i \in DOMAIN s : s[i] # 0}))

RECURSIVE BFromInt(_)
BFromInt(n) == IF n = 0 THEN <<>> ELSE <<n % Base>> \o BFromInt(n \div Base)

RECURSIVE BToInt(_)
BToInt(s) == IF s = <<>> THEN 0 ELSE s[1] + Base * BToInt(Tail(s))

\* the sequence a function on 1..n is, held as a sequence
AsSeq(f) == f \o <<>>

BPad(s, n) == AsSeq([i \in 1..n |-> IF i <= Len(s) THEN s[i] ELSE 0])

BShift(s, k) == IF s = <<>> THEN s ELSE [i \in 1..k |-> 0] \o s

BReverse(s) == AsSeq([i \in 1..Len(s) |-> s[Len(s) + 1 - i]])

\* the carry into limb i of a sum whose limb sums are s: some lower limb
\* overflows and every limb between passes the carry on
BCarry(s, i) ==
  IF \E j \in 1..(i - 1) :
       s[j] >= Base /\ \A k \in (j + 1)..(i - 1) : s[k] = Base - 1
  THEN 1 ELSE 0

\* the borrow from limb i of a difference whose limb differences are d
BBorrow(d, i) ==
  IF \E j \in 1..(i - 1) : d[j] < 0 /\ \A k \in (j + 1)..(i - 1) : d[k] = 0
  THEN 1 ELSE 0

\* -1, 0, 1 as a < b, a = b, a > b
BCmp(a, b) ==
  IF Len(a) < Len(b) THEN -1
  ELSE IF Len(a) > Len(b) THEN 1
  ELSE IF \A i \in DOMAIN a : a[i] = b[i] THEN 0
  ELSE IF \E i \in DOMAIN a : a[i] < b[i] /\ \A j \in (i + 1)..Len(a) : a[j] = b[j]
  THEN -1 ELSE 1

DLe(x, y) == x <= y

QMake(neg, n, d) == [neg |-> (neg /\ n # <<>>), n |-> n, d |-> d]

QZero == [neg |-> FALSE, n |-> <<>>, d |-> <<>>]
QOne == [neg |-> FALSE, n |-> <<1>>, d |-> <<>>]

QIsZero(a) == a.n = <<>>
QNeg(a) == QMake(~a.neg, a.n, a.d)

\* -1, 0, 1: the sign of a
QSign(a) == IF a.n = <<>> THEN 0 ELSE IF a.neg THEN -1 ELSE 1

RECURSIVE Arit(_, _)

\* a + b
BAdd(a, b) == Arit("BAdd", <<a, b>>)
\* a - b for a >= b
BSub(a, b) == Arit("BSub", <<a, b>>)
\* a * m for a small m >= 0
BMulS(a, m) == Arit("BMulS", <<a, m>>)
\* a times the limbs lo..hi of b, in place
BMulRange(a, b, lo, hi) == Arit("BMulRange", <<a, b, lo, hi>>)
\* a * b
BMul(a, b) == Arit("BMul", <<a, b>>)
\* the quotient limbs of a[lo..hi] (most significant limb first) by a small
\* m > 0, from the remainder r carried in, with the remainder out
BDivScan(a, m, lo, hi, r) == Arit("BDivScan", <<a, m, lo, hi, r>>)
\* quotient and remainder of a by a small m > 0
BDivS(a, m) == Arit("BDivS", <<a, m>>)
\* a times every factor of fs[lo..hi]
BMulAllRange(a, fs, lo, hi) == Arit("BMulAllRange", <<a, fs, lo, hi>>)
BMulAll(a, fs) == BMulAllRange(a, fs, 1, Len(fs))
\* a divided by every factor of fs[lo..hi] in turn: the quotient, and whether
\* every division was exact
BDivAllRange(a, fs, lo, hi) == Arit("BDivAllRange", <<a, fs, lo, hi>>)
BDivAll(a, fs) == BDivAllRange(a, fs, 1, Len(fs))
\* the factors of both denominators together
DMerge(x, y) == SortSeq(x \o y, DLe)
\* u minus x: each factor as often as u holds it more than x does
DMinus(u, x) == Arit("DMinus", <<u, x>>)
\* the least denominator that holds both
DUnion(x, y) == DMerge(x, DMinus(y, x))
\* the greatest common divisor
GCD(x, y) == Arit("GCD", <<x, y>>)
\* the integer i
QInt(i) == IF i < 0 THEN QMake(TRUE, BFromInt(-i), <<>>)
                    ELSE QMake(FALSE, BFromInt(i), <<>>)
QAdd(a, b) == Arit("QAdd", <<a, b>>)
QSub(a, b) == QAdd(a, QNeg(b))
QMul(a, b) == Arit("QMul", <<a, b>>)
\* a / m for a small integer m > 0
QDivS(a, m) == Arit("QDivS", <<a, m>>)
\* a / b for b # 0 whose numerator is small
QDiv(a, b) == Arit("QDiv", <<a, b>>)
\* the sign of a - b
QCmp(a, b) == QSign(QSub(a, b))
QLe(a, b) == QCmp(a, b) <= 0
\* a ** k for k >= 0
QPowNat(a, k) == Arit("QPowNat", <<a, k>>)
\* a ** k for an integer k (Python's float ** int); a # 0 with a small
\* numerator when k < 0
QPow(a, k) == Arit("QPow", <<a, k>>)
\* round(a, k): the possible results, in units of 1/scale
Round(a, scale) == Arit("Round", <<a, scale>>)

Arit(op, args) ==
  CASE op = "BAdd" ->
         LET a == args[1]
             b == args[2]
             n == IF Len(a) >= Len(b) THEN Len(a) ELSE Len(b)
             pa == BPad(a, n)
             pb == BPad(b, n)
             s == AsSeq([i \in 1..n |-> pa[i] + pb[i]])
             r == AsSeq([i \in 1..n |-> (s[i] + BCarry(s, i)) % Base])
         IN  IF BCarry(s, n + 1) = 1 THEN r \o <<1>> ELSE r
    [] op = "BSub" ->
         LET a == args[1]
             n == Len(a)
             pb == BPad(args[2], n)
             d == AsSeq([i \in 1..n |-> a[i] - pb[i]])
         IN  BNorm([i \in 1..n |-> (d[i] - BBorrow(d, i) + Base) % Base])
    [] op = "BMulS" ->
         \* each limb product, split in three limbs
         LET a == args[1]
             m == args[2]
             p == AsSeq([i \in 1..Len(a) |-> a[i] * m])
         IN  IF m = 0 \/ a = <<>> THEN <<>>
             ELSE BAdd(BAdd(BNorm([i \in 1..Len(a) |-> p[i] % Base]),
                            BShift(BNorm([i \in 1..Len(a) |-> (p[i] \div Base) % Base]), 1)),
                       BShift(BNorm([i \in 1..Len(a) |-> p[i] \div (Base * Base)]), 2))
    [] op = "BMulRange" ->
         LET a  == args[1]
             b  == args[2]
             lo == args[3]
             hi == args[4]
             h  == (lo + hi) \div 2
         IN  IF lo > hi THEN <<>>
             ELSE IF lo = hi THEN BShift(BMulS(a, b[lo]), lo - 1)
             ELSE BAdd(BMulRange(a, b, lo, h), BMulRange(a, b, h + 1, hi))
    [] op = "BMul" ->
         IF Len(args[1]) >= Len(args[2])
         THEN BMulRange(args[1], args[2], 1, Len(args[2]))
         ELSE BMulRange(args[2], args[1], 1, Len(args[1]))
    [] op = "BDivScan" ->
         LET a   == args[1]
             m   == args[2]
             lo  == args[3]
             hi  == args[4]
             r   == args[5]
             h   == (lo + hi) \div 2
             cur == r * Base + a[lo]
             L   == BDivScan(a, m, lo, h, r)
             R   == BDivScan(a, m, h + 1, hi, L.r)
         IN  IF lo > hi THEN [s |-> <<>>, r |-> r]
             ELSE IF lo = hi THEN [s |-> <<cur \div m>>, r |-> cur % m]
             ELSE [s |-> L.s \o R.s, r |-> R.r]
    [] op = "BDivS" ->
         LET x == BDivScan(BReverse(args[1]), args[2], 1, Len(args[1]), 0)
         IN  [q |-> BNorm(BReverse(x.s)), r |-> x.r]
    [] op = "BMulAllRange" ->
         LET a  == args[1]
             fs == args[2]
             lo == args[3]
             hi == args[4]
             h  == (lo + hi) \div 2
         IN  IF a = <<>> \/ lo > hi THEN a
             ELSE IF lo = hi THEN BMulS(a, fs[lo])
             ELSE BMulAllRange(BMulAllRange(a, fs, lo, h), fs, h + 1, hi)
    [] op = "BDivAllRange" ->
         LET a  == args[1]
             fs == args[2]
             lo == args[3]
             hi == args[4]
             h  == (lo + hi) \div 2
             x  == BDivS(a, fs[lo])
             L  == BDivAllRange(a, fs, lo, h)
             R  == BDivAllRange(L.q, fs, h + 1, hi)
         IN  IF a = <<>> \/ lo > hi THEN [q |-> a, exact |-> TRUE]
             ELSE IF lo = hi THEN [q |-> x.q, exact |-> (x.r = 0)]
             ELSE [q |-> R.q, exact |-> (L.exact /\ R.exact)]
    [] op = "DMinus" ->
         \* the factors of u whose rank among their equals exceeds their
         \* count in x, in order
         LET u   == args[1]
             x   == args[2]
             Sel == {i \in DOMAIN u :
                       Cardinality({j \in 1..i : u[j] = u[i]})
                         > Cardinality({j \in DOMAIN x : x[j] = u[i]})}
         IN  AsSeq([k \in 1..Cardinality(Sel) |->
                      u[CHOOSE i \in Sel : Cardinality({j \in Sel : j <= i}) = k]])
    [] op = "GCD" ->
         IF args[2] = 0 THEN args[1] ELSE GCD(args[2], args[1] % args[2])
    [] op = "QAdd" ->
         LET a  == args[1]
             b  == args[2]
             u  == DUnion(a.d, b.d)
             an == BMulAll(a.n, DMinus(u, a.d))
             bn == BMulAll(b.n, DMinus(u, b.d))
         IN  IF a.neg = b.neg THEN QMake(a.neg, BAdd(an, bn), u)
             ELSE IF BCmp(an, bn) >= 0 THEN QMake(a.neg, BSub(an, bn), u)
             ELSE QMake(b.neg, BSub(bn, an), u)
    [] op = "QMul" ->
         LET a == args[1]
             b == args[2]
         IN  IF a.n = <<>> \/ b.n = <<>> THEN QZero
             ELSE QMake(a.neg # b.neg, BMul(a.n, b.n), DMerge(a.d, b.d))
    [] op = "QDivS" ->
         \* in lower terms: the factor common to the numerator and m is
         \* divided out, and what is left of m joins the denominator,
         \* multiplied into its largest factor when that stays small
         LET a == args[1]
             m == args[2]
             g == GCD(m, BDivS(a.n, m).r)
             n == BDivS(a.n, g).q
             f == m \div g
             k == Len(a.d)
         IN  IF m = 1 \/ a.n = <<>> THEN a
             ELSE IF f = 1 THEN QMake(a.neg, n, a.d)
             ELSE IF k > 0 /\ a.d[k] * f <= MaxFactor
             THEN QMake(a.neg, n, [a.d EXCEPT ![k] = a.d[k] * f])
             ELSE QMake(a.neg, n, DMerge(a.d, <<f>>))
    [] op = "QDiv" ->
         LET a == args[1]
             b == args[2]
             s == QDivS(QMake(a.neg # b.neg, a.n, a.d), BToInt(b.n))
         IN  QMake(s.neg, BMulAll(s.n, b.d), s.d)
    [] op = "QPowNat" ->
         \* by halving the exponent
         LET a == args[1]
             k == args[2]
         IN  IF k = 0 THEN QOne
             ELSE IF k = 1 THEN a
             ELSE QMul(QPowNat(a, k \div 2), QPowNat(a, k - k \div 2))
    [] op = "QPow" ->
         IF args[2] >= 0 THEN QPowNat(args[1], args[2])
         ELSE QPowNat(QDiv(QOne, args[1]), -args[2])
    [] op = "Round" ->
         \* t is twice the scaled magnitude: an odd integer t is a tie, and
         \* then both neighbours are possible (the float nearest to the
         \* exact value lies on either side); otherwise the result is the
         \* nearest one
         LET a  == args[1]
             x  == BDivAll(BMulS(BMulS(a.n, args[2]), 2), a.d)
             t  == BToInt(x.q)
             sg == IF a.neg THEN -1 ELSE 1
         IN  IF x.exact /\ t % 2 = 1
             THEN {sg * ((t - 1) \div 2), sg * ((t + 1) \div 2)}
             ELSE {sg * ((t + 1) \div 2)}

\* ---------------------------------------------------------------- inputs
\* A raw amount as the caller sends it: a number (pesos + mil/1000, or a
\* negative whole number of pesos) or something float() rejects.
Dinero(pesos, mil) == [num |-> TRUE, pesos |-> pesos, mil |-> mil]
NoNumero == [num |-> FALSE, pesos |-> 0, mil |-> 0]

\* float(monto)
Float(m) == QAdd(QInt(m.pesos), QDivS(QInt(m.mil), 1000))

\* A raw integer argument: a number or something int() rejects.
Entero(v) == [num |-> TRUE, v |-> v]
NoEntero == [num |-> FALSE, v |-> 0]

\* An annual rate given in hundredths of a percent: float(tasa_anual)
Tasa(centesimas) == QDivS(QInt(centesimas), 100)

VARIABLES
  pc,             \* position of the request handler, or of the call under check
  entrada,        \* the arguments of the call, or the request's JSON body
  validacion,     \* result of validar_parametros_inversion
  resultado,      \* result of calcular_inversion_simple / calcular_inversion_mensual
  tabla,          \* result of generar_tabla_crecimiento_mensual
  comparaciones,  \* result of calcular_comparacion_productos
  llamadas,       \* calculator invocations made by the handler, in order
  respuesta,      \* the handler's HTTP response
  locales         \* the handler's local variables

vars == <<pc, entrada, validacion, resultado, tabla, comparaciones, llamadas, respuesta, locales>>

\* The value of a result that no call has produced yet.
Nada == [hay |-> FALSE]

\* ------------------------------------------------------------ validation
MONTO_MIN == 100
MONTO_MAX_SIMPLE == 50000000
MONTO_MAX_MENSUAL == 1000000
PLAZO_MIN == 1
PLAZO_MAX == 3650

MontoMax(tipo_inversion) ==
  IF tipo_inversion = "simple" THEN MONTO_MAX_SIMPLE ELSE MONTO_MAX_MENSUAL

ErrorMonto(tipo_inversion) ==
  IF tipo_inversion = "simple"
  THEN "El monto debe estar entre $100 y $50,000,000 MXN"
  ELSE "El monto debe estar entre $100 y $1,000,000 MXN"

\* MONTO_MIN <= monto <= MONTO_MAX
MontoEnRango(monto, tipo_inversion) ==
  QLe(QInt(MONTO_MIN), monto) /\ QLe(monto, QInt(MontoMax(tipo_inversion)))

\* 1 <= plazo_dias <= 3650
PlazoEnRangoDesdeCero(plazo_dias) == 0 <= plazo_dias /\ plazo_dias <= PLAZO_MAX

PlazoEnRango(plazo_dias) == PLAZO_MIN <= plazo_dias /\ plazo_dias <= PLAZO_MAX

\* validar_parametros_inversion: producto_id is accepted and never read
ValidarParametrosInversion(monto, plazo_dias, producto_id, tipo_inversion) ==
  IF ~monto.num
  THEN [valido |-> FALSE, errores |-> <<"El monto debe ser un número válido">>]
  ELSE
    LET e1 == IF ~MontoEnRango(Float(monto), tipo_inversion)
              THEN <<ErrorMonto(tipo_inversion)>> ELSE <<>>
    IN  IF ~plazo_dias.num
        THEN [valido |-> FALSE,
              errores |-> e1 \o <<"El plazo debe ser un número válido">>]
        ELSE
          LET errores == e1 \o (IF ~PlazoEnRango(plazo_dias.v)
                                THEN <<"El plazo debe estar entre 1 y 3650 días">>
                                ELSE <<>>)
          IN  [valido |-> (Len(errores) = 0), errores |-> errores]

\* The amounts, terms, product ids and kinds the validator is called with.
MontosValidar ==
  { Dinero(0, 0), Dinero(-5, 0), Dinero(99, 0), Dinero(99, 999), Dinero(100, 0),
    Dinero(100, 1), Dinero(5000, 0), Dinero(MONTO_MAX_MENSUAL, 0),
    Dinero(MONTO_MAX_MENSUAL, 1), Dinero(MONTO_MAX_SIMPLE, 0),
    Dinero(MONTO_MAX_SIMPLE, 1), NoNumero }

PlazosValidar ==
  { Entero(-1), Entero(0), Entero(1), Entero(28), Entero(PLAZO_MAX),
    Entero(PLAZO_MAX + 1), NoEntero }

ProductoIds == {"", "cetes"}
TiposInversion == {"simple", "mensual", "otro"}

InitValidar ==
  /\ pc = "inicio"
  /\ entrada \in [monto : MontosValidar, plazo_dias : PlazosValidar,
                  producto_id : ProductoIds, tipo_inversion : TiposInversion]
  /\ validacion = Nada /\ resultado = Nada /\ tabla = Nada
  /\ comparaciones = Nada /\ llamadas = <<>> /\ respuesta = Nada /\ locales = Nada

Validar ==
  /\ pc = "inicio"
  /\ validacion' = ValidarParametrosInversion(entrada.monto, entrada.plazo_dias,
                                              entrada.producto_id, entrada.tipo_inversion)
  /\ pc' = "fin"
  /\ UNCHANGED <<entrada, resultado, tabla, comparaciones, llamadas, respuesta, locales>>

NextValidar == Validar

SpecValidar == InitValidar /\ [][NextValidar]_vars

\* What the bounds say of a numeric request, read off the raw input.
MontoDentro(m, tipo) ==
  /\ m.pesos >= 100
  /\ (m.pesos < (IF tipo = "simple" THEN 50000000 ELSE 1000000)
      \/ (m.pesos = (IF tipo = "simple" THEN 50000000 ELSE 1000000) /\ m.mil = 0))

PlazoDentro(p) == p.v >= 1 /\ p.v <= 3650

\* C3: for a numeric amount and term and one of the two investment kinds,
\* the request is reported valid exactly when the amount is inside the
\* kind's bounds and the term is inside [1, 3650] (boundaries included), a
\* valid outcome carries no message and an invalid one carries at least one.
C3_ValidaSegunLimites ==
  (pc = "fin" /\ entrada.monto.num /\ entrada.plazo_dias.num
     /\ entrada.tipo_inversion \in {"simple", "mensual"})
  => /\ validacion.valido <=> (MontoDentro(entrada.monto, entrada.tipo_inversion)
                                /\ PlazoDentro(entrada.plazo_dias))
     /\ validacion.valido <=> (validacion.errores = <<>>)

\* C3 witness: the largest single contribution with the longest term is accepted
C3_Witness ==
  /\ pc = "fin"
  /\ entrada.monto = Dinero(50000000, 0) /\ entrada.plazo_dias = Entero(3650)
  /\ entrada.tipo_inversion = "simple" /\ entrada.producto_id = "cetes"
  /\ validacion.valido /\ validacion.errores = <<>>

\* C4: a request with an empty product id is reported invalid, with at least
\* one violation message.
C4_ProductoVacioInvalido ==
  (pc = "fin" /\ entrada.producto_id = "")
  => (~validacion.valido /\ Len(validacion.errores) >= 1)

\* ------------------------------------------------------ simple interest
DIAS_ANIO == 365

\* The outcome of a calculator whose conversions or arithmetic raised.
ErrorValor == [hay |-> TRUE, error |-> TRUE]

\* plazo_dias / 30.44
DiasAMeses(plazo_dias) == QDiv(QInt(plazo_dias), QDivS(QInt(3044), 100))

\* rendimiento = monto_inicial * tasa_decimal * tiempo_anos, mutated to a
\* 360-day year
RendimientoSimpleAnio360(monto_inicial, tasa_anual, plazo_dias) ==
  QMul(QMul(monto_inicial, QDivS(tasa_anual, 100)), QDivS(QInt(plazo_dias), 360))

\* rendimiento = monto_inicial * tasa_decimal * tiempo_anos
RendimientoSimple(monto_inicial, tasa_anual, plazo_dias) ==
  LET tasa_decimal == QDivS(tasa_anual, 100)
      tiempo_anos  == QDivS(QInt(plazo_dias), DIAS_ANIO)
  IN  QMul(QMul(monto_inicial, tasa_decimal), tiempo_anos)

\* calcular_inversion_simple: the set of results it can return.  tasa is the
\* raw rate in hundredths of a percent.
CalcularInversionSimple(monto, tasa, plazo) ==
  IF ~monto.num \/ ~tasa.num \/ ~plazo.num THEN {ErrorValor}
  ELSE
    LET monto_inicial == Float(monto)
        tasa_anual    == Tasa(tasa.v)
        plazo_dias    == plazo.v
        rendimiento   == RendimientoSimple(monto_inicial, tasa_anual, plazo_dias)
        monto_final   == QAdd(monto_inicial, rendimiento)
        tasa_efectiva == tasa_anual
    IN  { [hay |-> TRUE, error |-> FALSE, tipo_inversion |-> "simple",
           monto_inicial |-> mi, rendimiento |-> r, monto_final |-> mf,
           tasa_efectiva |-> te, plazo_meses |-> pm,
           tasa_anual |-> tasa.v, plazo_dias |-> plazo_dias] :
          mi \in Round(monto_inicial, 100), r \in Round(rendimiento, 100),
          mf \in Round(monto_final, 100), te \in Round(tasa_efectiva, 100),
          pm \in Round(DiasAMeses(plazo_dias), 10) }

MontosSimple ==
  { Dinero(10000, 0), Dinero(100, 0), Dinero(100, 4), Dinero(18, 250),
    Dinero(1, 500), Dinero(0, 10), Dinero(81268, 750), NoNumero }

TasasSimple == { Entero(0), Entero(500), Entero(620), Entero(1000), Entero(1200), NoEntero }

PlazosSimple ==
  { Entero(0), Entero(1), Entero(28), Entero(73), Entero(DIAS_ANIO), Entero(1898),
    Entero(PLAZO_MAX), NoEntero }

InitSimple ==
  /\ pc = "inicio"
  /\ entrada \in [monto : MontosSimple, tasa : TasasSimple, plazo : PlazosSimple]
  /\ validacion = Nada /\ resultado = Nada /\ tabla = Nada
  /\ comparaciones = Nada /\ llamadas = <<>> /\ respuesta = Nada /\ locales = Nada

CalcularSimple ==
  /\ pc = "inicio"
  /\ resultado' \in CalcularInversionSimple(entrada.monto, entrada.tasa, entrada.plazo)
  /\ pc' = "fin"
  /\ UNCHANGED <<entrada, validacion, tabla, comparaciones, llamadas, respuesta, locales>>

NextSimple == CalcularSimple

SpecSimple == InitSimple /\ [][NextSimple]_vars

\* |a| <= b
QAbsLe(a, b) == QLe(a, b) /\ QLe(QNeg(b), a)

\* The call is inside C8's domain: principal > 0, rate >= 0, termDays > 0.
DominioSimple ==
  /\ entrada.monto.num /\ entrada.tasa.num /\ entrada.plazo.num
  /\ (entrada.monto.pesos > 0 \/ entrada.monto.mil > 0)
  /\ entrada.tasa.v >= 0 /\ entrada.plazo.v > 0

\* principal * (rate/100) * (termDays/365), in pesos
RetornoEsperado ==
  QDivS(QDivS(QDivS(QDivS(
    QMul(QMul(QInt(entrada.monto.pesos * 1000 + entrada.monto.mil), QInt(entrada.tasa.v)),
         QInt(entrada.plazo.v)), 1000), 100), 100), 365)

\* C8 as stated: finalAmount >= principal, and on the reported values
\* totalReturn = finalAmount - principal, totalReturn being
\* principal * (rate/100) * (termDays/365).
C8_Original ==
  (pc = "fin" /\ DominioSimple)
  => /\ ~resultado.error
     /\ resultado.monto_final * 10 >= entrada.monto.pesos * 1000 + entrada.monto.mil
     /\ resultado.rendimiento = resultado.monto_final - resultado.monto_inicial
     /\ QAbsLe(QSub(QDivS(QInt(resultado.rendimiento), 100), RetornoEsperado),
               QDivS(QOne, 200))

\* C8 amended: the reported totalReturn is principal*(rate/100)*(termDays/365)
\* rounded to 2 decimals, the reported finalAmount is at least the reported
\* principal, and totalReturn differs from finalAmount - principal (both as
\* reported) by at most 0.01; computeSingle(10000, 12, 365) reports 1200.00
\* and 11200.00.
C8_RetornoSimple ==
  (pc = "fin" /\ DominioSimple)
  => /\ ~resultado.error
     /\ resultado.monto_final >= resultado.monto_inicial
     /\ resultado.rendimiento - (resultado.monto_final - resultado.monto_inicial)
          \in {-1, 0, 1}
     /\ QAbsLe(QSub(QDivS(QInt(resultado.rendimiento), 100), RetornoEsperado),
               QDivS(QOne, 200))
     /\ (entrada = [monto |-> Dinero(10000, 0), tasa |-> Entero(1200), plazo |-> Entero(365)]
         => resultado.rendimiento = 120000 /\ resultado.monto_final = 1120000)

\* C8 witness: the spec's example has been computed
C8_Witness ==
  /\ pc = "fin"
  /\ entrada = [monto |-> Dinero(10000, 0), tasa |-> Entero(1200), plazo |-> Entero(365)]
  /\ ~resultado.error /\ resultado.rendimiento = 120000

\* ------------------------------------------------- monthly contributions
\* tasa_mensual = (tasa_anual / 100) / 12
TasaMensual(tasa_anual) == QDivS(QDivS(tasa_anual, 100), 12)

\* factor = ((1 + tasa_mensual) ** plazo_meses - 1) / tasa_mensual
\* monto_final = monto_mensual * factor * (1 + tasa_mensual)
MontoFinalConTasa(monto_mensual, tasa_mensual, plazo_meses) ==
  LET factor == QDiv(QSub(QPow(QAdd(QOne, tasa_mensual), plazo_meses), QOne),
                     tasa_mensual)
  IN  QMul(QMul(monto_mensual, factor), QAdd(QOne, tasa_mensual))

\* calcular_tir_anualidad, called inside calcular_inversion_mensual's inner
\* try: "tir" when Newton's method returns a root, "ninguna" when it returns
\* None (scipy missing, no convergence) or when building the cash flows
\* raised (flujos[-1] of an empty list, for plazo_meses <= 0).  The root's
\* value is not modelled.
ResultadosTir(plazo_meses) ==
  IF plazo_meses <= 0 THEN {"ninguna"} ELSE {"tir", "ninguna"}

\* calcular_inversion_mensual: the set of results it can return.
\* tasa_efectiva is reported by the branch that computed it.
CalcularInversionMensual(monto, tasa, plazo) ==
  IF ~monto.num \/ ~tasa.num \/ ~plazo.num THEN {ErrorValor}
  ELSE
    LET monto_mensual == Float(monto)
        tasa_anual    == Tasa(tasa.v)
        plazo_meses   == plazo.v
        tasa_mensual  == TasaMensual(tasa_anual)
        monto_final   == IF QSign(tasa_mensual) > 0
                         THEN MontoFinalConTasa(monto_mensual, tasa_mensual, plazo_meses)
                         ELSE QMul(monto_mensual, QInt(plazo_meses))
        total_aportado    == QMul(monto_mensual, QInt(plazo_meses))
        rendimiento_total == QSub(monto_final, total_aportado)
        Reporte(tasa_efectiva) ==
          { [hay |-> TRUE, error |-> FALSE, tipo_inversion |-> "mensual",
             monto_mensual |-> mm, total_aportado |-> ta, rendimiento_total |-> rt,
             monto_final |-> mf, tasa_efectiva |-> tasa_efectiva,
             plazo_meses |-> plazo_meses, tasa_anual |-> tasa.v] :
            mm \in Round(monto_mensual, 100), ta \in Round(total_aportado, 100),
            rt \in Round(rendimiento_total, 100), mf \in Round(monto_final, 100) }
        ConTir(tir) ==
          IF tir = "tir" THEN Reporte("tir")
          ELSE IF QIsZero(total_aportado) THEN {ErrorValor}
          ELSE IF plazo_meses < 12 THEN Reporte("extrapolada")
          ELSE Reporte("anualizada")
    IN  UNION { ConTir(tir) : tir \in ResultadosTir(plazo_meses) }

\* intereses_mes, mutated to accrue on the balance after this month's
\* contribution
InteresesMesTrasAportar(saldo_anterior, monto_mensual, tasa_mensual) ==
  QMul(QAdd(saldo_anterior, monto_mensual), tasa_mensual)

\* intereses_mes = saldo_anterior * tasa_mensual
InteresesMes(saldo_anterior, monto_mensual, tasa_mensual) ==
  QMul(saldo_anterior, tasa_mensual)

\* total_aportado, mutated to leave out this month's contribution
TotalAportadoSinEsteMes(monto_mensual, mes) == QMul(monto_mensual, QInt(mes - 1))

\* total_aportado = monto_mensual * mes
TotalAportadoMes(monto_mensual, mes) == QMul(monto_mensual, QInt(mes))

\* The rows for months mes..plazo_meses, from the balance carried over
\* (for mes in range(1, plazo_meses + 1)): the set of possible tables.
RECURSIVE FilasDesde(_, _, _, _, _, _)
FilasDesde(monto, monto_mensual, tasa_mensual, mes, plazo_meses, saldo_anterior) ==
  IF mes > plazo_meses THEN {<<>>}
  ELSE
    LET intereses_mes  == InteresesMes(saldo_anterior, monto_mensual, tasa_mensual)
        saldo_actual   == QAdd(QAdd(saldo_anterior, intereses_mes), monto_mensual)
        total_aportado == TotalAportadoMes(monto_mensual, mes)
        rendimiento_acumulado == QSub(saldo_actual, total_aportado)
        filas ==
          { [mes |-> mes, aportacion |-> monto, total_aportado |-> ta,
             rendimiento_mes |-> rm, rendimiento_acumulado |-> ra, monto_total |-> mt] :
            ta \in Round(total_aportado, 100), rm \in Round(intereses_mes, 100),
            ra \in Round(rendimiento_acumulado, 100), mt \in Round(saldo_actual, 100) }
    IN  { <<f>> \o resto :
          f \in filas,
          resto \in FilasDesde(monto, monto_mensual, tasa_mensual, mes + 1,
                               plazo_meses, saldo_actual) }

\* generar_tabla_crecimiento_mensual: the set of tables it can return; a
\* failed conversion is printed and an empty table returned.
GenerarTablaCrecimientoMensual(monto, tasa, plazo) ==
  IF ~monto.num \/ ~tasa.num \/ ~plazo.num THEN {<<>>}
  ELSE FilasDesde(monto, Float(monto), TasaMensual(Tasa(tasa.v)), 1, plazo.v, QZero)

\* The longest run of months the calculators are called with.
MaxMeses == 12

MontosMensual ==
  { Dinero(1000, 0), Dinero(250, 700), Dinero(100, 4), Dinero(0, 0), NoNumero }

TasasMensual == { Entero(0), Entero(1001), Entero(1200), NoEntero }

PlazosMensual ==
  { Entero(n) : n \in 1..MaxMeses } \cup { Entero(0), Entero(-2), NoEntero }

InitMensual ==
  /\ pc = "inicio"
  /\ entrada \in [monto : MontosMensual, tasa : TasasMensual, plazo : PlazosMensual]
  /\ validacion = Nada /\ resultado = Nada /\ tabla = Nada
  /\ comparaciones = Nada /\ llamadas = <<>> /\ respuesta = Nada /\ locales = Nada

CalcularMensual ==
  /\ ~resultado.hay
  /\ resultado' \in CalcularInversionMensual(entrada.monto, entrada.tasa, entrada.plazo)
  /\ pc' = IF tabla.hay THEN "fin" ELSE "calculado"
  /\ UNCHANGED <<entrada, validacion, tabla, comparaciones, llamadas, respuesta, locales>>

GenerarTabla ==
  /\ ~tabla.hay
  /\ \E filas \in GenerarTablaCrecimientoMensual(entrada.monto, entrada.tasa, entrada.plazo) :
       tabla' = [hay |-> TRUE, filas |-> filas]
  /\ pc' = IF resultado.hay THEN "fin" ELSE "tabulado"
  /\ UNCHANGED <<entrada, validacion, resultado, comparaciones, llamadas, respuesta, locales>>

NextMensual == CalcularMensual \/ GenerarTabla

SpecMensual == InitMensual /\ [][NextMensual]_vars

\* The call is numeric with at least one month.
NumericaConMeses ==
  entrada.monto.num /\ entrada.tasa.num /\ entrada.plazo.num /\ entrada.plazo.v >= 1

\* contribution > 0, rate >= 0, months > 0
DominioMensual ==
  /\ NumericaConMeses
  /\ (entrada.monto.pesos > 0 \/ entrada.monto.mil > 0)
  /\ entrada.tasa.v >= 0

\* The contribution in thousandths of a peso.
Milesimas == entrada.monto.pesos * 1000 + entrada.monto.mil

\* c * ((1 + r)^n - 1) / r: the future value of an ordinary annuity
AnualidadOrdinaria(c, r, n) == QMul(c, QDiv(QSub(QPow(QAdd(QOne, r), n), QOne), r))

\* C1: for contribution > 0, rate >= 0 and months > 0 the finalAmount of
\* computeRecurring equals the balance of the schedule's last row for the
\* same inputs, within 0.01.
C1_CierreIgualUltimaFila ==
  (resultado.hay /\ tabla.hay /\ DominioMensual)
  => /\ ~resultado.error
     /\ Len(tabla.filas) >= 1
     /\ resultado.monto_final - tabla.filas[Len(tabla.filas)].monto_total \in {-1, 0, 1}

\* C2: with a non-zero monthly rate r and n >= 1 months, computeRecurring
\* reports finalAmount = c * ((1+r)^n - 1)/r, totalContributed = c*n and
\* totalReturn = finalAmount - totalContributed (each to 2 decimals);
\* computeRecurring(1000, 12, 12) reports 12682.50, 12000.00 and 682.50.
C2_AnualidadOrdinaria ==
  (resultado.hay /\ NumericaConMeses /\ entrada.tasa.v > 0 /\ ~resultado.error)
  => LET c == Float(entrada.monto)
         r == TasaMensual(Tasa(entrada.tasa.v))
         n == entrada.plazo.v
     IN  /\ resultado.monto_final \in Round(AnualidadOrdinaria(c, r, n), 100)
         /\ resultado.total_aportado \in Round(QMul(c, QInt(n)), 100)
         /\ resultado.rendimiento_total
              \in Round(QSub(AnualidadOrdinaria(c, r, n), QMul(c, QInt(n))), 100)
         /\ (entrada = [monto |-> Dinero(1000, 0), tasa |-> Entero(1200), plazo |-> Entero(12)]
             => /\ resultado.monto_final = 1268250
                /\ resultado.total_aportado = 1200000
                /\ resultado.rendimiento_total = 68250)

\* C9 as stated: numMonths rows, the k-th row has period k and
\* cumulativeContributed exactly contribution * k.
C9_Original ==
  (tabla.hay /\ NumericaConMeses)
  => /\ Len(tabla.filas) = entrada.plazo.v
     /\ \A k \in 1..Len(tabla.filas) :
          /\ tabla.filas[k].mes = k
          /\ tabla.filas[k].total_aportado * 10 = Milesimas * k

\* C9 amended: numMonths rows, the k-th row has period k, and its
\* cumulativeContributed is contribution * k rounded to 2 decimals (so it is
\* contribution * k itself when the contribution is a whole number of
\* centavos).
C9_FilasPeriodosAportado ==
  (tabla.hay /\ NumericaConMeses)
  => /\ Len(tabla.filas) = entrada.plazo.v
     /\ \A k \in 1..Len(tabla.filas) :
          /\ tabla.filas[k].mes = k
          /\ tabla.filas[k].total_aportado * 10 - Milesimas * k \in -5..5
          /\ (entrada.monto.mil % 10 = 0
              => tabla.filas[k].total_aportado * 10 = Milesimas * k)

\* C9 witness: a twelve-row schedule of 1000.00 a month ends at 12000.00
\* contributed
C9_Witness ==
  /\ tabla.hay /\ entrada.monto = Dinero(1000, 0) /\ entrada.tasa = Entero(1200)
  /\ entrada.plazo = Entero(12)
  /\ Len(tabla.filas) = 12 /\ tabla.filas[12].mes = 12
  /\ tabla.filas[12].total_aportado = 1200000

\* The reported balance before period k, in centavos.
SaldoPrevio(k) == IF k = 1 THEN 0 ELSE tabla.filas[k - 1].monto_total

C11_MensualNuncaFalla ==
  ( /\ resultado.hay
    /\ NumericaConMeses
    /\ entrada.tasa.v >= 0
    /\ entrada.monto.pesos >= 0 /\ entrada.monto.mil >= 0 )
  => ~resultado.error

\* ----------------------------------------------------- product comparison
\* The catalog handed to calcular_comparacion_productos is a sequence of
\* products in the mapping's iteration order; a product's id is its position.
\* A product may lack 'nombre' or 'plazos'; plazos is the sequence of its
\* terms in iteration order.  A term has its key (a string int() accepts or
\* rejects) and may lack 'tasa_anual' or 'nombre'.
Plazo(clave, tasa) ==
  [clave |-> clave, tiene_tasa |-> TRUE, tasa |-> tasa, tiene_nombre |-> TRUE]

PlazoSinTasa(clave) ==
  [clave |-> clave, tiene_tasa |-> FALSE, tasa |-> NoEntero, tiene_nombre |-> TRUE]

PlazoSinNombre(clave, tasa) ==
  [clave |-> clave, tiene_tasa |-> TRUE, tasa |-> tasa, tiene_nombre |-> FALSE]

Producto(plazos) == [tiene_nombre |-> TRUE, tiene_plazos |-> TRUE, plazos |-> plazos]

ProductoSinNombre(plazos) ==
  [tiene_nombre |-> FALSE, tiene_plazos |-> TRUE, plazos |-> plazos]

ProductoSinPlazos == [tiene_nombre |-> TRUE, tiene_plazos |-> FALSE, plazos |-> <<>>]

\* The body of the inner loop for one (product, term) pair: the row it
\* appends, or nothing when the try block raised (plazo_info['tasa_anual'],
\* int(plazo_dias), calcular_inversion_simple, producto['nombre'] or
\* plazo_info['nombre']).
FilasDelPar(monto, producto_id, producto, plazo_info) ==
  IF ~plazo_info.tiene_tasa THEN {<<>>}
  ELSE { IF resultado_par.error \/ ~producto.tiene_nombre \/ ~plazo_info.tiene_nombre
         THEN <<>>
         ELSE << [producto_id   |-> producto_id,
                  plazo_dias    |-> plazo_info.clave.v,
                  tasa_anual    |-> plazo_info.tasa.v,
                  rendimiento   |-> resultado_par.rendimiento,
                  monto_final   |-> resultado_par.monto_final,
                  tasa_efectiva |-> resultado_par.tasa_efectiva] >> :
         resultado_par \in
           CalcularInversionSimple(monto, plazo_info.tasa, plazo_info.clave) }

\* for plazo_dias, plazo_info in producto['plazos'].items(), from term j on
RECURSIVE FilasDelProducto(_, _, _, _)
FilasDelProducto(monto, producto_id, producto, j) ==
  IF j > Len(producto.plazos) THEN {<<>>}
  ELSE { fila \o resto :
         fila \in FilasDelPar(monto, producto_id, producto, producto.plazos[j]),
         resto \in FilasDelProducto(monto, producto_id, producto, j + 1) }

\* for producto_id, producto in productos.items(), from product i on
RECURSIVE ComparacionesDesde(_, _, _)
ComparacionesDesde(monto, productos, i) ==
  IF i > Len(productos) THEN {<<>>}
  ELSE { filas \o resto :
         filas \in FilasDelProducto(monto, i, productos[i], 1),
         resto \in ComparacionesDesde(monto, productos, i + 1) }

\* The place of row i after sorting, mutated to sort by ascending return.
PosicionAscendente(filas, i) ==
  1 + Cardinality({j \in DOMAIN filas : filas[j].rendimiento < filas[i].rendimiento})
    + Cardinality({j \in 1..(i - 1) : filas[j].rendimiento = filas[i].rendimiento})

\* sorted(comparaciones, key=rendimiento, reverse=True), a stable sort: the
\* place of row i is after the rows of greater return and after the earlier
\* rows of equal return.
Posicion(filas, i) ==
  1 + Cardinality({j \in DOMAIN filas : filas[j].rendimiento > filas[i].rendimiento})
    + Cardinality({j \in 1..(i - 1) : filas[j].rendimiento = filas[i].rendimiento})

Ordenar(filas) ==
  AsSeq([k \in 1..Len(filas) |->
           filas[CHOOSE i \in DOMAIN filas : Posicion(filas, i) = k]])

\* calcular_comparacion_productos: the set of its outcomes.  producto['plazos']
\* is read outside the try block, so a product without 'plazos' raises out of
\* the function.
CalcularComparacionProductos(monto, productos) ==
  IF \E i \in DOMAIN productos : ~productos[i].tiene_plazos
  THEN {[hay |-> TRUE, error |-> TRUE]}
  ELSE { [hay |-> TRUE, error |-> FALSE, filas |-> Ordenar(filas)] :
         filas \in ComparacionesDesde(monto, productos, 1) }

\* The most products in a catalog.
MaxProductos == 2

FormasProducto ==
  { Producto(<<Plazo(Entero(28), Entero(1000)), Plazo(Entero(91), Entero(1200))>>),
    Producto(<<Plazo(Entero(28), Entero(1001))>>),
    Producto(<<Plazo(NoEntero, Entero(1000)), PlazoSinTasa(Entero(28)),
               Plazo(Entero(91), NoEntero), PlazoSinNombre(Entero(182), Entero(1000)),
               Plazo(Entero(364), Entero(500))>>),
    ProductoSinNombre(<<Plazo(Entero(28), Entero(1200))>>),
    Producto(<<>>),
    ProductoSinPlazos }

Catalogos == UNION { [1..n -> FormasProducto] : n \in 0..MaxProductos }

MontosComparacion == { Dinero(100, 0), Dinero(1000, 0), NoNumero }

InitComparacion ==
  /\ pc = "inicio"
  /\ entrada \in [monto : MontosComparacion, productos : Catalogos]
  /\ validacion = Nada /\ resultado = Nada /\ tabla = Nada
  /\ comparaciones = Nada /\ llamadas = <<>> /\ respuesta = Nada /\ locales = Nada

Comparar ==
  /\ pc = "inicio"
  /\ comparaciones' \in CalcularComparacionProductos(entrada.monto, entrada.productos)
  /\ pc' = "fin"
  /\ UNCHANGED <<entrada, validacion, resultado, tabla, llamadas, respuesta, locales>>

NextComparacion == Comparar

SpecComparacion == InitComparacion /\ [][NextComparacion]_vars

\* The ranking has been returned.
Clasificado == comparaciones.hay /\ ~comparaciones.error

\* The place of a row's term among its product's terms.
LugarDelPlazo(fila) ==
  CHOOSE j \in DOMAIN entrada.productos[fila.producto_id].plazos :
    entrada.productos[fila.producto_id].plazos[j].clave
      = Entero(fila.plazo_dias)

\* Row a's (product, term) pair is iterated before row b's.
IteradaAntes(a, b) ==
  \/ a.producto_id < b.producto_id
  \/ a.producto_id = b.producto_id /\ LugarDelPlazo(a) < LugarDelPlazo(b)

\* The rows are in descending order of return, and rows of equal return are
\* in the order their pairs were iterated.
OrdenadoYEstable ==
  \A k \in DOMAIN comparaciones.filas : \A l \in DOMAIN comparaciones.filas :
    k < l =>
      /\ comparaciones.filas[k].rendimiento >= comparaciones.filas[l].rendimiento
      /\ comparaciones.filas[k].rendimiento = comparaciones.filas[l].rendimiento
           => IteradaAntes(comparaciones.filas[k], comparaciones.filas[l])

\* C6 as stated: the rows are ordered by return descending, rows of equal
\* return keep the iteration order, and of two rows of different products at
\* the same term the one with the higher rate comes first.
C6_Original ==
  Clasificado =>
    /\ OrdenadoYEstable
    /\ \A k \in DOMAIN comparaciones.filas : \A l \in DOMAIN comparaciones.filas :
         ( /\ comparaciones.filas[k].producto_id # comparaciones.filas[l].producto_id
           /\ comparaciones.filas[k].plazo_dias = comparaciones.filas[l].plazo_dias
           /\ comparaciones.filas[k].tasa_anual > comparaciones.filas[l].tasa_anual )
         => k < l

\* C6 (amended): the rows are ordered by return descending, rows of equal
\* return keep the iteration order, and of two rows of different products at
\* the same term the one with the higher rate comes first whenever their
\* returns, rounded to cents, differ.
C6_OrdenDescendenteEstable ==
  Clasificado =>
    /\ OrdenadoYEstable
    /\ \A k \in DOMAIN comparaciones.filas : \A l \in DOMAIN comparaciones.filas :
         ( /\ comparaciones.filas[k].producto_id # comparaciones.filas[l].producto_id
           /\ comparaciones.filas[k].plazo_dias = comparaciones.filas[l].plazo_dias
           /\ comparaciones.filas[k].tasa_anual > comparaciones.filas[l].tasa_anual
           /\ comparaciones.filas[k].rendimiento # comparaciones.filas[l].rendimiento )
         => k < l

\* C6 witness: a ranking of three rows in which the sort moved the 91-day row
\* to the front and the two 28-day rows, of rates 10.00 % and 10.01 % and of
\* the same return, kept the catalog's order.
C6_Witness ==
  /\ Clasificado
  /\ Len(comparaciones.filas) = 3
  /\ comparaciones.filas[1].plazo_dias = 91
  /\ comparaciones.filas[2].tasa_anual = 1000
  /\ comparaciones.filas[3].tasa_anual = 1001
  /\ comparaciones.filas[2].rendimiento = comparaciones.filas[3].rendimiento

\* The (product, term) pairs of the catalog that are well formed.
ParesBienFormados ==
  { <<i, j>> \in (DOMAIN entrada.productos) \X (1..5) :
      /\ entrada.productos[i].tiene_plazos
      /\ entrada.productos[i].tiene_nombre
      /\ j \in DOMAIN entrada.productos[i].plazos
      /\ entrada.productos[i].plazos[j].clave.num
      /\ entrada.productos[i].plazos[j].tiene_tasa
      /\ entrada.productos[i].plazos[j].tasa.num
      /\ entrada.productos[i].plazos[j].tiene_nombre }

\* C7: for any catalog, malformed products or terms included, the ranking is
\* returned without raising and holds exactly one row for each well-formed
\* (product, term) pair.
C7_NuncaFallaPorUnaEntrada ==
  (pc = "fin" /\ entrada.monto.num) =>
    /\ Clasificado
    /\ Len(comparaciones.filas) = Cardinality(ParesBienFormados)
    /\ \A par \in ParesBienFormados :
         \E k \in DOMAIN comparaciones.filas :
           /\ comparaciones.filas[k].producto_id = par[1]
           /\ LugarDelPlazo(comparaciones.filas[k]) = par[2]

\* ------------------------------------------------------ request handler
\* obtener_tasa_producto: the rate of the product's term, or a ValueError
ObtenerTasaProducto(producto, plazo_dias) ==
  IF plazo_dias \in DOMAIN producto.plazos
  THEN [error |-> FALSE, tasa |-> producto.plazos[plazo_dias].tasa_anual]
  ELSE [error |-> TRUE, tasa |-> 0]

\* What cargar_productos can return: the catalog file's products (terms are
\* keyed by the decimal string of their days, written here as the number;
\* rates in hundredths of a percent), or nothing when the file is missing or
\* malformed.
CatalogoArchivo ==
  [ cetes |-> [nombre |-> "CETES",
               plazos |-> (28 :> [tasa_anual |-> 1001, nombre |-> "28 dias"])
                          @@ (91 :> [tasa_anual |-> 1200, nombre |-> "91 dias"])],
    bonos |-> [nombre |-> "Bonos",
               plazos |-> (28 :> [tasa_anual |-> 0, nombre |-> "28 dias"])] ]

CatalogoVacio == [x \in {} |-> x]

CargarProductos == {CatalogoArchivo, CatalogoVacio}

CamposRequeridos == <<"monto", "producto_id", "plazo_dias", "tipo_inversion">>

\* The first required field the body lacks, or "" when it has them all.
RECURSIVE PrimerCampoFaltante(_, _)
PrimerCampoFaltante(campos, requeridos) ==
  IF requeridos = <<>> THEN ""
  ELSE IF requeridos[1] \notin campos THEN requeridos[1]
  ELSE PrimerCampoFaltante(campos, Tail(requeridos))

Responder(status, error) == [hay |-> TRUE, status |-> status, error |-> error]

Llamada(fn, monto, tasa, plazo) == [fn |-> fn, monto |-> monto, tasa |-> tasa, plazo |-> plazo]

\* The request bodies the handler is sent.
CuerposCampos ==
  { {"monto", "producto_id", "plazo_dias", "tipo_inversion", "plazo_meses"},
    {"monto", "producto_id", "plazo_dias", "tipo_inversion"},
    {"monto", "producto_id", "tipo_inversion", "plazo_meses"} }

Cuerpos ==
  [ campos : CuerposCampos,
    monto : {Dinero(99, 0), Dinero(100, 0), Dinero(1000, 0), NoNumero},
    producto_id : {"cetes", "bonos", "", "otro"},
    plazo_dias : {Entero(28), Entero(29), Entero(0), NoEntero},
    tipo_inversion : TiposInversion,
    plazo_meses : {Entero(-2), Entero(0), Entero(3), NoEntero} ]

InitApi ==
  /\ pc = "recibido"
  /\ entrada \in Cuerpos
  /\ validacion = Nada /\ resultado = Nada /\ tabla = Nada
  /\ comparaciones = Nada /\ llamadas = <<>> /\ respuesta = Nada /\ locales = Nada

\* data = request.get_json(); required fields; float(monto), int(plazo_dias)
Recibir ==
  /\ pc = "recibido"
  /\ LET falta == PrimerCampoFaltante(entrada.campos, CamposRequeridos)
     IN  IF falta # ""
         THEN /\ respuesta' = Responder(400, "Campo requerido")
              /\ pc' = "respondido"
              /\ UNCHANGED locales
         ELSE IF ~entrada.monto.num \/ ~entrada.plazo_dias.num
         THEN /\ respuesta' = Responder(400, "Error de formato")
              /\ pc' = "respondido"
              /\ UNCHANGED locales
         ELSE /\ locales' = [hay |-> TRUE, monto |-> entrada.monto,
                             producto_id |-> entrada.producto_id,
                             plazo_dias |-> entrada.plazo_dias.v,
                             tipo_inversion |-> entrada.tipo_inversion,
                             tasa |-> 0]
              /\ pc' = "validar"
              /\ UNCHANGED respuesta
  /\ UNCHANGED <<entrada, validacion, resultado, tabla, comparaciones, llamadas>>

\* validacion = validar_parametros_inversion(...); 400 when not valid
ValidarSolicitud ==
  /\ pc = "validar"
  /\ LET v == ValidarParametrosInversion(locales.monto, Entero(locales.plazo_dias),
                                         locales.producto_id, locales.tipo_inversion)
     IN  /\ validacion' = v
         /\ IF v.valido
            THEN pc' = "buscar" /\ UNCHANGED respuesta
            ELSE pc' = "respondido" /\ respuesta' = Responder(400, "Validacion")
  /\ UNCHANGED <<entrada, resultado, tabla, comparaciones, llamadas, locales>>

\* productos = cargar_productos(); product and term lookups; the term's rate
BuscarProducto ==
  /\ pc = "buscar"
  /\ \E productos \in CargarProductos :
       IF locales.producto_id \notin DOMAIN productos
       THEN /\ respuesta' = Responder(404, "Producto no encontrado")
            /\ pc' = "respondido"
            /\ UNCHANGED locales
       ELSE IF locales.plazo_dias \notin DOMAIN productos[locales.producto_id].plazos
       THEN /\ respuesta' = Responder(404, "Plazo no disponible")
            /\ pc' = "respondido"
            /\ UNCHANGED locales
       ELSE /\ locales' = [locales EXCEPT !.tasa =
                 ObtenerTasaProducto(productos[locales.producto_id], locales.plazo_dias).tasa]
            /\ pc' = "calcular"
            /\ UNCHANGED respuesta
  /\ UNCHANGED <<entrada, validacion, resultado, tabla, comparaciones, llamadas>>

\* tipo_inversion == 'simple': calcular_inversion_simple and the response
ResponderSimple ==
  /\ pc = "calcular" /\ locales.tipo_inversion = "simple"
  /\ resultado' \in CalcularInversionSimple(locales.monto, Entero(locales.tasa),
                                            Entero(locales.plazo_dias))
  /\ llamadas' = Append(llamadas, Llamada("calcular_inversion_simple", locales.monto,
                                          locales.tasa, locales.plazo_dias))
  /\ respuesta' = Responder(200, "")
  /\ pc' = "respondido"
  /\ UNCHANGED <<entrada, validacion, tabla, comparaciones, locales>>

\* plazo_meses_corrida = int(data.get('plazo_meses', 12))
PlazoMesesCorrida ==
  IF "plazo_meses" \in entrada.campos THEN entrada.plazo_meses ELSE Entero(12)

\* tipo_inversion == 'mensual': the run's months are read from the body and
\* handed to calcular_inversion_mensual as they are
CalcularMensualApi ==
  /\ pc = "calcular" /\ locales.tipo_inversion = "mensual"
  /\ IF ~PlazoMesesCorrida.num
     THEN /\ respuesta' = Responder(400, "Error de formato")
          /\ pc' = "respondido"
          /\ UNCHANGED <<resultado, llamadas>>
     ELSE /\ resultado' \in CalcularInversionMensual(locales.monto, Entero(locales.tasa),
                                                     PlazoMesesCorrida)
          /\ llamadas' = Append(llamadas, Llamada("calcular_inversion_mensual", locales.monto,
                                                  locales.tasa, PlazoMesesCorrida.v))
          /\ IF resultado'.error
             THEN pc' = "respondido" /\ respuesta' = Responder(400, "Error de formato")
             ELSE pc' = "tabla" /\ UNCHANGED respuesta
  /\ UNCHANGED <<entrada, validacion, tabla, comparaciones, locales>>

\* tabla = generar_tabla_crecimiento_mensual(...); the response
ResponderMensual ==
  /\ pc = "tabla"
  /\ \E filas \in GenerarTablaCrecimientoMensual(locales.monto, Entero(locales.tasa),
                                                 PlazoMesesCorrida) :
       tabla' = [hay |-> TRUE, filas |-> filas]
  /\ llamadas' = Append(llamadas, Llamada("generar_tabla_crecimiento_mensual", locales.monto,
                                          locales.tasa, PlazoMesesCorrida.v))
  /\ respuesta' = Responder(200, "")
  /\ pc' = "respondido"
  /\ UNCHANGED <<entrada, validacion, resultado, comparaciones, locales>>

\* any other tipo_inversion
TipoNoValido ==
  /\ pc = "calcular" /\ locales.tipo_inversion \notin {"simple", "mensual"}
  /\ respuesta' = Responder(400, "Tipo de inversion no valido")
  /\ pc' = "respondido"
  /\ UNCHANGED <<entrada, validacion, resultado, tabla, comparaciones, llamadas, locales>>

NextApi ==
  \/ Recibir
  \/ ValidarSolicitud
  \/ BuscarProducto
  \/ ResponderSimple
  \/ CalcularMensualApi
  \/ ResponderMensual
  \/ TipoNoValido

SpecApi == InitApi /\ [][NextApi]_vars

\* C5: the handler never invokes computeRecurring or
\* generateRecurringSchedule with numMonths <= 0.
C5_MesesPositivosEnCalculadoras ==
  \A i \in 1..Len(llamadas) :
    llamadas[i].fn \in {"calcular_inversion_mensual", "generar_tabla_crecimiento_mensual"}
      => llamadas[i].plazo >= 1

====
